---- MODULE Spec2Model ----
(***************************************************************************)
(* State-machine model of src/task_2.py: the splay tree (Node, SplayTree)  *)
(* and the memoized Fibonacci evaluator built on it; and of the cached     *)
(* range sum of src/task_1.py.                                             *)
(*                                                                         *)
(* Nodes are numbered 1, 2, ... in the order Node(...) is called; the five *)
(* fields of a Node are the sequences key, val, left, right, parent,       *)
(* indexed by node number.  None (0) is Python's None.  One step of the    *)
(* model is one call of _rotate together with the control flow around it,  *)
(* so the states between the two rotations of a zig-zig or zig-zag step    *)
(* are states of the model.  SpecConc alone steps through _rotate one      *)
(* pointer assignment at a time, for two threads.                          *)
(***************************************************************************)
EXTENDS Integers, Sequences, FiniteSets, TLC

\* Bounds of the model: caller keys are 0..MaxKey, caller values 0..MaxVal,
\* the evaluator is run for every n in 0..MaxN, and a scripted caller
\* inserts ScriptLen keys.
MaxKey == 3
MaxVal == 1
MaxN == 5
ScriptLen == 3
\* task_1: lists have ArrLen elements, each in 0..MaxElem.
ArrLen == 2
MaxElem == 2

Keys == 0..MaxKey
Vals == 0..MaxVal

None == 0

VARIABLES
    key,      \* key[n]    : Node.key of node n
    val,      \* val[n]    : Node.val
    left,     \* left[n]   : Node.left  (None or a node)
    right,    \* right[n]  : Node.right
    parent,   \* parent[n] : Node.parent
    root,     \* SplayTree.root
    phase,    \* position in SplayTree.__init__: "new", "seed1", "ready"
    pc,       \* position in the running insert/search: "idle", "splay", "splay2"
    op,       \* the running (or last) operation: [kind, key, val]
    x,        \* the node _splay was called on (None: no splay)
    result,   \* what search returned: a node, or None
    rots,     \* number of _rotate calls the running (or last) operation made
    amap,     \* abstract key-value map run beside the tree
    stack,    \* call stack of fibonacci_splay: frames [n, at, a]
    ret,      \* value returned by the last finished fibonacci_splay call
    fibN,     \* argument of the outermost fibonacci_splay call
    todo,     \* keys a scripted caller has still to insert
    done,     \* keys a scripted caller has inserted, in order
    iter0,    \* the links when the running _splay iteration began (between
              \* its two rotations; NoLinks otherwise)
    d0,       \* depth of x when _splay was called by the running (or last)
              \* operation
    inserted, \* keys fibonacci_splay has passed to tree.insert, in order
    arr,      \* task_1: arr[a] is the contents of the list object a
    cache,    \* task_1: the entries of _cached_sum's lru_cache
    cop,      \* task_1: the last call of the cached interface and its result
    procs,    \* two interleaved operations on one tree: each one's position
              \* and local variables
    overlapped \* an operation was called while the other one was running

vars == <<key, val, left, right, parent, root, phase, pc, op, x, result,
          rots, amap, stack, ret, fibN, todo, done, iter0, d0, inserted,
          arr, cache, cop, procs, overlapped>>

treeVars == <<key, val, left, right, parent, root>>
callerVars == <<amap, stack, ret, fibN, todo, done, inserted>>
sideVars == <<arr, cache, cop, procs, overlapped>>

Nodes == 1..Len(key)

\* The link fields of all nodes and the root, as one value.
Links == [left |-> left, right |-> right, parent |-> parent, root |-> root]
NoLinks == [left |-> <<>>, right |-> <<>>, parent |-> <<>>, root |-> None]

\* The number of parent links from n up to a node without parent (at most d).
RECURSIVE UpIn(_, _, _)
UpIn(t, n, d) ==
    IF t.parent[n] = None \/ d = 0 THEN 0 ELSE 1 + UpIn(t, t.parent[n], d - 1)

DepthIn(t, n) == UpIn(t, n, Len(key))
Depth(n) == DepthIn(Links, n)

----------------------------------------------------------------------------
(* SplayTree._rotate(x), lines 26-49, on the links t.                      *)

\* Mutant: a rotation that does not hand x's inner subtree b over to p
\* (p.left = None for p.left = b = x.right, and its mirror image).
RotateDropInner(t, n) ==
    LET p == t.parent[n] IN
    IF p = None THEN t
    ELSE
      LET g == t.parent[p]
          isLeft == (n = t.left[p])
          t1 == IF isLeft
                THEN [t EXCEPT !.left[p] = None, !.right[n] = p]
                ELSE [t EXCEPT !.right[p] = None, !.left[n] = p]
          t3 == [t1 EXCEPT !.parent[n] = g, !.parent[p] = n]
      IN IF g /= None
         THEN IF p = t3.left[g]
              THEN [t3 EXCEPT !.left[g] = n]
              ELSE [t3 EXCEPT !.right[g] = n]
         ELSE [t3 EXCEPT !.root = n]

\* Mutant: a rotation that does not put x in p's place (lines 43-49 left
\* out): g, or the tree's root, still names p.
RotateNoRelink(t, n) ==
    LET p == t.parent[n] IN
    IF p = None THEN t
    ELSE
      LET g == t.parent[p]
          isLeft == (n = t.left[p])
          b == IF isLeft THEN t.right[n] ELSE t.left[n]
          t1 == IF isLeft
                THEN [t EXCEPT !.left[p] = b, !.right[n] = p]
                ELSE [t EXCEPT !.right[p] = b, !.left[n] = p]
          t2 == IF b /= None THEN [t1 EXCEPT !.parent[b] = p] ELSE t1
      IN [t2 EXCEPT !.parent[n] = g, !.parent[p] = n]

\* Mutant: a rotation that forgets to re-parent the moved subtree b
\* (lines 39-40 left out).
RotateNoReparent(t, n) ==
    LET p == t.parent[n] IN
    IF p = None THEN t
    ELSE
      LET g == t.parent[p]
          isLeft == (n = t.left[p])
          b == IF isLeft THEN t.right[n] ELSE t.left[n]
          t1 == IF isLeft
                THEN [t EXCEPT !.left[p] = b, !.right[n] = p]
                ELSE [t EXCEPT !.right[p] = b, !.left[n] = p]
          t3 == [t1 EXCEPT !.parent[n] = g, !.parent[p] = n]
      IN IF g /= None
         THEN IF p = t3.left[g]
              THEN [t3 EXCEPT !.left[g] = n]
              ELSE [t3 EXCEPT !.right[g] = n]
         ELSE [t3 EXCEPT !.root = n]

Rotate(t, n) ==
    LET p == t.parent[n] IN
    IF p = None THEN t
    ELSE
      LET g == t.parent[p]
          isLeft == (n = t.left[p])
          b == IF isLeft THEN t.right[n] ELSE t.left[n]
          t1 == IF isLeft
                THEN [t EXCEPT !.left[p] = b, !.right[n] = p]
                ELSE [t EXCEPT !.right[p] = b, !.left[n] = p]
          t2 == IF b /= None THEN [t1 EXCEPT !.parent[b] = p] ELSE t1
          t3 == [t2 EXCEPT !.parent[n] = g, !.parent[p] = n]
      IN IF g /= None
         THEN IF p = t3.left[g]
              THEN [t3 EXCEPT !.left[g] = n]
              ELSE [t3 EXCEPT !.right[g] = n]
         ELSE [t3 EXCEPT !.root = n]

\* The three cases of one _splay loop iteration, lines 53-65.
IsZig(t, n) == t.parent[t.parent[n]] = None
\* Mutant: the zig-zig test of line 58 negated.
IsZigZigFlipped(t, n) ==
    LET p == t.parent[n]
        g == t.parent[p]
    IN (n = t.left[p]) /= (p = t.left[g])

IsZigZig(t, n) ==
    LET p == t.parent[n]
        g == t.parent[p]
    IN g /= None /\ ((n = t.left[p]) = (p = t.left[g]))

\* Mutant: the loop of _splay written as an `if`: one iteration, then return.
AfterSplayOnce(t, n) == "idle"

\* The loop test of _splay, line 52, after which the operation returns.
AfterSplay(t, n) == IF t.parent[n] = None THEN "idle" ELSE "splay"

----------------------------------------------------------------------------
(* The descent loops of insert (lines 71-83) and search (lines 93-103).    *)
(* Each returns the node holding k (found, or None) and the last node      *)
(* visited (last).                                                         *)

RECURSIVE InsertWalk(_, _, _)
InsertWalk(node, par, k) ==
    IF node = None THEN [found |-> None, last |-> par]
    ELSE IF k < key[node] THEN InsertWalk(left[node], node, k)
    ELSE IF k > key[node] THEN InsertWalk(right[node], node, k)
    ELSE [found |-> node, last |-> node]

\* Mutant: a search that does not remember the last node visited, so that a
\* miss splays nothing.
RECURSIVE SearchWalkNoLast(_, _, _)
SearchWalkNoLast(node, last, k) ==
    IF node = None THEN [found |-> None, last |-> None]
    ELSE IF k < key[node] THEN SearchWalkNoLast(left[node], node, k)
    ELSE IF k > key[node] THEN SearchWalkNoLast(right[node], node, k)
    ELSE [found |-> node, last |-> node]

RECURSIVE SearchWalk(_, _, _)
SearchWalk(node, last, k) ==
    IF node = None THEN [found |-> None, last |-> last]
    ELSE IF k < key[node] THEN SearchWalk(left[node], node, k)
    ELSE IF k > key[node] THEN SearchWalk(right[node], node, k)
    ELSE [found |-> node, last |-> node]

----------------------------------------------------------------------------
(* SplayTree.insert(k, v), lines 67-90, up to its call of _splay.          *)

\* Mutant: the update of an existing key leaves the old value in place.
OverwriteSkip(n, v) == val

\* line 81: node.val = val
Overwrite(n, v) == [val EXCEPT ![n] = v]

\* Mutant: the comparison of line 86 turned round.
GoesLeftFlipped(k, par) == k > key[par]

\* line 86: the side of parent the new node is linked on
GoesLeft(k, par) == k < key[par]

DoInsert(k, v) ==
    /\ op' = [kind |-> "insert", key |-> k, val |-> v]
    /\ result' = None
    /\ rots' = 0
    /\ iter0' = iter0
    /\ IF root = None
       THEN /\ d0' = 0
            /\ key' = Append(key, k)
            /\ val' = Append(val, v)
            /\ left' = Append(left, None)
            /\ right' = Append(right, None)
            /\ parent' = Append(parent, None)
            /\ root' = Len(key) + 1
            /\ x' = None
            /\ pc' = "idle"
       ELSE LET w == InsertWalk(root, None, k) IN
            IF w.found /= None
            THEN /\ val' = Overwrite(w.found, v)
                 /\ UNCHANGED <<key, left, right, parent, root>>
                 /\ x' = w.found
                 /\ d0' = Depth(w.found)
                 /\ pc' = AfterSplay(Links, w.found)
            ELSE LET new == Len(key) + 1 IN
                 /\ key' = Append(key, k)
                 /\ val' = Append(val, v)
                 /\ parent' = Append(parent, w.last)
                 /\ left' = IF GoesLeft(k, w.last)
                            THEN [Append(left, None) EXCEPT ![w.last] = new]
                            ELSE Append(left, None)
                 /\ right' = IF GoesLeft(k, w.last)
                             THEN Append(right, None)
                             ELSE [Append(right, None) EXCEPT ![w.last] = new]
                 /\ root' = root
                 /\ x' = new
                 /\ d0' = Depth(w.last) + 1
                 \* new_node.parent is parent, never None: the loop runs
                 /\ pc' = "splay"

(* SplayTree.search(k), lines 92-107, up to its call of _splay.            *)
DoSearch(k) ==
    LET w == SearchWalk(root, None, k) IN
    /\ op' = [kind |-> "search", key |-> k, val |-> None]
    /\ result' = w.found
    /\ rots' = 0
    /\ UNCHANGED treeVars
    /\ iter0' = iter0
    /\ IF w.found /= None
       THEN /\ x' = w.found
            /\ d0' = Depth(w.found)
            /\ pc' = AfterSplay(Links, w.found)
       ELSE IF w.last /= None
       THEN /\ x' = w.last
            /\ d0' = Depth(w.last)
            /\ pc' = AfterSplay(Links, w.last)
       ELSE /\ x' = None
            /\ d0' = 0
            /\ pc' = "idle"

SetLinks(t) ==
    /\ left' = t.left
    /\ right' = t.right
    /\ parent' = t.parent
    /\ root' = t.root

----------------------------------------------------------------------------
(* SplayTree.__init__, lines 20-24.                                        *)

CtorInsert0 ==
    /\ phase = "new"
    /\ pc = "idle"
    /\ DoInsert(0, 0)
    /\ phase' = "seed1"
    /\ UNCHANGED callerVars
    /\ UNCHANGED sideVars

CtorInsert1 ==
    /\ phase = "seed1"
    /\ pc = "idle"
    /\ DoInsert(1, 1)
    /\ phase' = "ready"
    /\ UNCHANGED callerVars
    /\ UNCHANGED sideVars

(* A caller's tree.insert(k, v) and tree.search(k) on a constructed tree.  *)

Insert(k, v) ==
    /\ phase = "ready"
    /\ pc = "idle"
    /\ DoInsert(k, v)
    /\ amap' = [j \in DOMAIN amap \cup {k} |-> IF j = k THEN v ELSE amap[j]]
    /\ UNCHANGED <<phase, stack, ret, fibN, todo, done, inserted>>
    /\ UNCHANGED sideVars

Search(k) ==
    /\ phase = "ready"
    /\ pc = "idle"
    /\ DoSearch(k)
    /\ UNCHANGED <<phase, amap, stack, ret, fibN, todo, done, inserted>>
    /\ UNCHANGED sideVars

(* tree.search(k) on a tree the constructor has not finished seeding.      *)
EarlySearch(k) ==
    /\ phase /= "ready"
    /\ pc = "idle"
    /\ DoSearch(k)
    /\ UNCHANGED <<phase, amap, stack, ret, fibN, todo, done, inserted>>
    /\ UNCHANGED sideVars

(* One iteration of the _splay loop, lines 52-65: its first rotation ...   *)
SplayStep ==
    /\ pc = "splay"
    /\ LET t == Links IN
       IF IsZig(t, x)
       THEN LET u == Rotate(t, x) IN
            /\ SetLinks(u)
            /\ pc' = AfterSplay(u, x)
       ELSE IF IsZigZig(t, x)
       THEN /\ SetLinks(Rotate(t, t.parent[x]))
            /\ pc' = "splay2"
       ELSE /\ SetLinks(Rotate(t, x))
            /\ pc' = "splay2"
    /\ rots' = rots + 1
    /\ iter0' = IF IsZig(Links, x) THEN NoLinks ELSE Links
    /\ UNCHANGED <<key, val, phase, op, x, result, d0>>
    /\ UNCHANGED callerVars
    /\ UNCHANGED sideVars

(* ... and the second rotation of a zig-zig or zig-zag, lines 61 and 65.   *)
SplayStep2 ==
    /\ pc = "splay2"
    /\ LET u == Rotate(Links, x) IN
       /\ SetLinks(u)
       /\ pc' = AfterSplay(u, x)
    /\ rots' = rots + 1
    /\ iter0' = NoLinks
    /\ UNCHANGED <<key, val, phase, op, x, result, d0>>
    /\ UNCHANGED callerVars
    /\ UNCHANGED sideVars

----------------------------------------------------------------------------
(* fibonacci_splay(n, tree), lines 121-130, as an explicit call stack.     *)
(* A frame is [n, at, a]: the argument, the position in the body and a     *)
(* local value.  The bottom frame is the caller of lines 149-151, which    *)
(* calls fibonacci_splay(fibN, tree) on a new tree and afterwards searches *)
(* fibN once more.                                                         *)

\* Mutant: the first sub-result added to itself.
CombineSame(a, b) == a + a

\* line 128: the recurrence's combination of the two sub-results
Combine(a, b) == a + b

Top == stack[Len(stack)]
Pop == SubSeq(stack, 1, Len(stack) - 1)
SetTop(f) == [stack EXCEPT ![Len(stack)] = f]
Frame(n, at, a) == [n |-> n, at |-> at, a |-> a]

FibReady ==
    /\ phase = "ready"
    /\ pc = "idle"
    /\ stack /= <<>>

\* lines 150-151: return fibonacci_splay(n, tree)
FibDriverCall ==
    /\ FibReady
    /\ Top.at = "driver"
    /\ stack' = Append(SetTop(Frame(Top.n, "returned", None)),
                       Frame(Top.n, "entry", None))
    /\ UNCHANGED <<treeVars, phase, pc, op, x, result, rots, iter0, d0,
                   amap, ret, fibN, todo, done, inserted>>
    /\ UNCHANGED sideVars

\* lines 122-124: the base case, or the probe of the tree
FibEntry ==
    /\ FibReady
    /\ Top.at = "entry"
    /\ IF Top.n < 2
       THEN /\ ret' = Top.n
            /\ stack' = Pop
            /\ UNCHANGED <<treeVars, pc, op, x, result, rots, iter0, d0>>
       ELSE /\ DoSearch(Top.n)
            /\ stack' = SetTop(Frame(Top.n, "searched", None))
            /\ ret' = ret
    /\ UNCHANGED <<phase, amap, fibN, todo, done, inserted>>
    /\ UNCHANGED sideVars

\* Mutant: the evaluator ignores a hit and recurses (lines 125-126 left out).
FibSearchedNoMemo ==
    /\ FibReady
    /\ Top.at = "searched"
    /\ ret' = ret
    /\ stack' = Append(SetTop(Frame(Top.n, "rec1", None)),
                       Frame(Top.n - 1, "entry", None))
    /\ UNCHANGED <<treeVars, phase, pc, op, x, result, rots, iter0, d0,
                   amap, fibN, todo, done, inserted>>
    /\ UNCHANGED sideVars

\* lines 125-128: a hit returns node.val, a miss calls fibonacci_splay(n - 1)
FibSearched ==
    /\ FibReady
    /\ Top.at = "searched"
    /\ IF result /= None
       THEN /\ ret' = val[result]
            /\ stack' = Pop
       ELSE /\ ret' = ret
            /\ stack' = Append(SetTop(Frame(Top.n, "rec1", None)),
                               Frame(Top.n - 1, "entry", None))
    /\ UNCHANGED <<treeVars, phase, pc, op, x, result, rots, iter0, d0,
                   amap, fibN, todo, done, inserted>>
    /\ UNCHANGED sideVars

\* line 128: the first call has returned; call fibonacci_splay(n - 2)
FibRec1 ==
    /\ FibReady
    /\ Top.at = "rec1"
    /\ stack' = Append(SetTop(Frame(Top.n, "rec2", ret)),
                       Frame(Top.n - 2, "entry", None))
    /\ UNCHANGED <<treeVars, phase, pc, op, x, result, rots, iter0, d0,
                   amap, ret, fibN, todo, done, inserted>>
    /\ UNCHANGED sideVars

\* lines 128-129: the second call has returned; tree.insert(n, val)
FibRec2 ==
    /\ FibReady
    /\ Top.at = "rec2"
    /\ LET v == Combine(Top.a, ret) IN
       /\ DoInsert(Top.n, v)
       /\ stack' = SetTop(Frame(Top.n, "inserted", v))
    /\ inserted' = Append(inserted, Top.n)
    /\ UNCHANGED <<phase, amap, ret, fibN, todo, done>>
    /\ UNCHANGED sideVars

\* line 130: return val
FibReturn ==
    /\ FibReady
    /\ Top.at = "inserted"
    /\ ret' = Top.a
    /\ stack' = Pop
    /\ UNCHANGED <<treeVars, phase, pc, op, x, result, rots, iter0, d0,
                   amap, fibN, todo, done, inserted>>
    /\ UNCHANGED sideVars

\* the caller's tree.search(fibN) after the evaluation has returned
FinalSearch ==
    /\ FibReady
    /\ Top.at = "returned"
    /\ Top.n >= 2
    /\ DoSearch(Top.n)
    /\ stack' = SetTop(Frame(Top.n, "checked", None))
    /\ UNCHANGED <<phase, amap, ret, fibN, todo, done, inserted>>
    /\ UNCHANGED sideVars

----------------------------------------------------------------------------
(* A scripted caller: tree.insert(k, v) for the keys of todo, in order.    *)

ScriptInsert ==
    /\ phase = "ready"
    /\ pc = "idle"
    /\ todo /= <<>>
    /\ \E v \in Vals : DoInsert(Head(todo), v)
    /\ todo' = Tail(todo)
    /\ done' = Append(done, Head(todo))
    /\ UNCHANGED <<phase, amap, stack, ret, fibN, inserted>>
    /\ UNCHANGED sideVars

----------------------------------------------------------------------------
SeedMap == [j \in {0, 1} |-> j]

\* The state line 21 leaves: a tree object with no node.
NoTree ==
    /\ key = <<>>
    /\ val = <<>>
    /\ left = <<>>
    /\ right = <<>>
    /\ parent = <<>>
    /\ root = None
    /\ pc = "idle"
    /\ op = [kind |-> "none", key |-> None, val |-> None]
    /\ x = None
    /\ result = None
    /\ rots = 0
    /\ iter0 = NoLinks
    /\ d0 = 0

\* No call of task_1's cached interface and no interleaved operation has
\* been made.
NoCall == [kind |-> "none", a |-> "none", L |-> 0, R |-> 0, res |-> 0,
           hit |-> FALSE]
NotCalled == [pc |-> "ready", kind |-> "none", k |-> None, v |-> None,
              x |-> None, rx |-> None, second |-> None, p |-> None,
              g |-> None, b |-> None, side |-> "none", n |-> 0]
NoCacheUse ==
    /\ arr = <<>>
    /\ cache = {}
    /\ cop = NoCall
NoProcs ==
    /\ procs = <<NotCalled, NotCalled>>
    /\ overlapped = FALSE
NoSide == NoCacheUse /\ NoProcs

\* Spec: a tree is constructed (lines 20-24) and then used by a caller that
\* calls insert and search with any keys and values, one call at a time.
Init ==
    /\ NoTree
    /\ phase = "new"
    /\ amap = SeedMap
    /\ stack = <<>>
    /\ ret = None
    /\ fibN = None
    /\ todo = <<>>
    /\ done = <<>>
    /\ inserted = <<>>
    /\ NoSide

Next ==
    \/ CtorInsert0
    \/ CtorInsert1
    \/ \E k \in Keys, v \in Vals : Insert(k, v)
    \/ \E k \in Keys : Search(k)
    \/ SplayStep
    \/ SplayStep2

Spec == Init /\ [][Next]_vars

\* SpecEarly: as Spec, and search may also be called on the tree as line 21
\* (root None) and line 23 (one node) leave it: the states search's own
\* empty-tree path (lines 93-94, 105-107) is written for.
NextEarly ==
    \/ CtorInsert0
    \/ CtorInsert1
    \/ \E k \in Keys : EarlySearch(k)
    \/ \E k \in Keys, v \in Vals : Insert(k, v)
    \/ \E k \in Keys : Search(k)
    \/ SplayStep
    \/ SplayStep2

SpecEarly == Init /\ [][NextEarly]_vars

\* SpecFib: a tree is constructed and fibonacci_splay(fibN, tree) is
\* evaluated on it, for any fibN in 0..MaxN.
InitFib ==
    /\ NoTree
    /\ phase = "new"
    /\ amap = SeedMap
    /\ fibN \in 0..MaxN
    /\ stack = <<Frame(fibN, "driver", None)>>
    /\ ret = None
    /\ todo = <<>>
    /\ done = <<>>
    /\ inserted = <<>>
    /\ NoSide

NextFib ==
    \/ CtorInsert0
    \/ CtorInsert1
    \/ FibDriverCall
    \/ FibEntry
    \/ FibSearched
    \/ FibRec1
    \/ FibRec2
    \/ FibReturn
    \/ FinalSearch
    \/ SplayStep
    \/ SplayStep2

SpecFib == InitFib /\ [][NextFib]_vars

\* SpecFibFair: SpecFib run by an interpreter that keeps executing: a step
\* that can be taken is taken.
SpecFibFair == InitFib /\ [][NextFib]_vars /\ WF_vars(NextFib)

\* SpecScript: a tree is constructed and a caller inserts ScriptLen keys,
\* any keys in any order.
InitScript ==
    /\ NoTree
    /\ phase = "new"
    /\ amap = SeedMap
    /\ stack = <<>>
    /\ ret = None
    /\ fibN = None
    /\ todo \in [1..ScriptLen -> Keys]
    /\ done = <<>>
    /\ inserted = <<>>
    /\ NoSide

NextScript ==
    \/ CtorInsert0
    \/ CtorInsert1
    \/ ScriptInsert
    \/ SplayStep
    \/ SplayStep2

SpecScript == InitScript /\ [][NextScript]_vars

----------------------------------------------------------------------------
(* src/task_1.py: range sums over a list, without and with an LRU cache.   *)
(* A list object is named by its identity (what id() returns); "array" is  *)
(* the list the module-level name `array` is bound to (line 99), "other"   *)
(* is any other list a caller passes.                                      *)

GlobalArray == "array"
OtherArray == "other"

Arrays == [1..ArrLen -> 0..MaxElem]
Ranges == {r \in (0..ArrLen - 1) \X (0..ArrLen - 1) : r[1] <= r[2]}

\* lru_cache(maxsize=1000), line 46
CacheSize == 1000

\* sum(s[L:R+1]) for 0 <= L <= R < len(s); s[i] of Python is s[i + 1] here.
RECURSIVE SumSlice(_, _, _)
SumSlice(s, L, R) == IF L > R THEN 0 ELSE s[L + 1] + SumSlice(s, L + 1, R)

\* range_sum_no_cache(array, L, R), lines 19-31, on the contents s.
RangeSumNoCache(s, L, R) == SumSlice(s, L, R)

\* The body of _cached_sum(array_id, L, R), line 60: it sums the list the
\* global name `array` is bound to, whatever array_id is.
CachedSum(a, L, R) == SumSlice(arr[GlobalArray], L, R)

\* Mutant: update_with_cache without line 90.
CacheKeep(c) == c

\* _cached_sum.cache_clear(), line 90
CacheClear(c) == {}

splayVars == <<treeVars, phase, pc, op, x, result, rots, iter0, d0>>

\* range_sum_with_cache(a, L, R), lines 63-76: _cached_sum(id(a), L, R)
\* through the lru_cache wrapper.  A hit returns the stored value; a miss
\* runs the body and stores the value, evicting an entry when the cache is
\* full (which entry is the least recently used is not tracked: any one).
RangeSumWithCache(a, L, R) ==
    LET k == <<a, L, R>>
        hits == {e \in cache : e.k = k}
    IN /\ IF hits /= {}
          THEN /\ cop' = [kind |-> "sum", a |-> a, L |-> L, R |-> R,
                          res |-> (CHOOSE e \in hits : TRUE).v, hit |-> TRUE]
               /\ cache' = cache
          ELSE LET v == CachedSum(a, L, R) IN
               /\ cop' = [kind |-> "sum", a |-> a, L |-> L, R |-> R,
                          res |-> v, hit |-> FALSE]
               /\ IF Cardinality(cache) < CacheSize
                  THEN cache' = cache \cup {[k |-> k, v |-> v]}
                  ELSE \E old \in cache :
                          cache' = (cache \ {old}) \cup {[k |-> k, v |-> v]}
       /\ UNCHANGED arr
       /\ UNCHANGED <<splayVars, callerVars, procs, overlapped>>

\* update_with_cache(a, index, value), lines 79-90
UpdateWithCache(a, index, value) ==
    /\ arr' = [arr EXCEPT ![a][index + 1] = value]
    /\ cache' = CacheClear(cache)
    /\ cop' = [kind |-> "update", a |-> a, L |-> index, R |-> index,
               res |-> value, hit |-> FALSE]
    /\ UNCHANGED <<splayVars, callerVars, procs, overlapped>>

NoCaller ==
    /\ phase = "new"
    /\ amap = SeedMap
    /\ stack = <<>>
    /\ ret = None
    /\ fibN = None
    /\ todo = <<>>
    /\ done = <<>>
    /\ inserted = <<>>

\* SpecCache: the cached interface used as the main block uses it, on the
\* list `array`, with any queries in any order.
InitCache ==
    /\ NoTree /\ NoCaller /\ NoProcs
    /\ arr \in [{GlobalArray} -> Arrays]
    /\ cache = {}
    /\ cop = NoCall

NextCache ==
    \/ \E a \in DOMAIN arr, r \in Ranges : RangeSumWithCache(a, r[1], r[2])
    \/ \E a \in DOMAIN arr, i \in 0..ArrLen - 1, v \in 0..MaxElem :
          UpdateWithCache(a, i, v)

SpecCache == InitCache /\ [][NextCache]_vars

\* SpecCacheTwo: the cached interface called with `array` and with another
\* list.
InitCacheTwo ==
    /\ NoTree /\ NoCaller /\ NoProcs
    /\ arr \in [{GlobalArray, OtherArray} -> Arrays]
    /\ cache = {}
    /\ cop = NoCall

SpecCacheTwo == InitCacheTwo /\ [][NextCache]_vars

----------------------------------------------------------------------------
(* Two operations on one constructed tree, run by two threads with no lock. *)
(* procs[i] is thread i's operation: its position pc ("ready": not called, *)
(* "loop": at the test of the _splay loop, "rot1".."rot6": inside _rotate, *)
(* "done": returned), its arguments, and its local variables: x of _splay, *)
(* rx (the x of _rotate), second (the node the second rotation of the      *)
(* iteration is for), and p, g, b and the branch taken (side) of _rotate.  *)
(* n counts the iterations of its _splay loop.  A step is one pointer      *)
(* assignment of _rotate together with the reads before it; the descent of *)
(* insert and search and the tests of one _splay iteration are one step    *)
(* each.                                                                   *)

Procs == {1, 2}
Other(i) == 3 - i
Running(i) == procs[i].pc \notin {"ready", "done"}

\* The value a thread's insert stores plays no part in the links: one value.
ConcVals == {MaxVal}

Set(i, f) == procs' = [procs EXCEPT ![i] = f]

\* The constructor has returned and thread i has not called yet.  The two
\* threads run the same code, so the one that calls first is named 1.
CanCall(i) ==
    /\ phase = "ready" /\ pc = "idle"
    /\ procs[i].pc = "ready"
    /\ i = 1 \/ procs[1].pc /= "ready"

CallFrame == <<phase, pc, op, x, result, rots, iter0, d0, callerVars,
               arr, cache, cop>>

\* tree.insert(k, v) called by thread i: lines 67-90 up to the call of _splay
CInsert(i, k, v) ==
    /\ CanCall(i)
    /\ LET w == InsertWalk(root, None, k) IN
       IF w.found /= None
       THEN /\ val' = Overwrite(w.found, v)
            /\ UNCHANGED <<key, left, right, parent, root>>
            /\ Set(i, [procs[i] EXCEPT !.pc = "loop", !.kind = "insert",
                                       !.k = k, !.v = v, !.x = w.found])
       ELSE LET new == Len(key) + 1 IN
            /\ key' = Append(key, k)
            /\ val' = Append(val, v)
            /\ parent' = Append(parent, w.last)
            /\ left' = IF GoesLeft(k, w.last)
                       THEN [Append(left, None) EXCEPT ![w.last] = new]
                       ELSE Append(left, None)
            /\ right' = IF GoesLeft(k, w.last)
                        THEN Append(right, None)
                        ELSE [Append(right, None) EXCEPT ![w.last] = new]
            /\ root' = root
            /\ Set(i, [procs[i] EXCEPT !.pc = "loop", !.kind = "insert",
                                       !.k = k, !.v = v, !.x = new])
    /\ overlapped' = (overlapped \/ Running(Other(i)))
    /\ UNCHANGED CallFrame

\* tree.search(k) called by thread i: lines 92-107 up to the call of _splay
CSearch(i, k) ==
    /\ CanCall(i)
    /\ LET w == SearchWalk(root, None, k)
           n == IF w.found /= None THEN w.found ELSE w.last
       IN Set(i, [procs[i] EXCEPT !.pc = IF n = None THEN "done" ELSE "loop",
                                  !.kind = "search", !.k = k, !.x = n])
    /\ overlapped' = (overlapped \/ Running(Other(i)))
    /\ UNCHANGED treeVars
    /\ UNCHANGED CallFrame

\* _splay, lines 52-65: the loop test and the choice of the rotations of
\* one iteration
\* one iteration.  A loop alone in a tree of Len(key) nodes starts at depth
\* Len(key) - 1 at most and so makes Len(key) \div 2 iterations at most; a
\* loop the other thread keeps feeding is followed that far and no further.
CLoop(i) ==
    /\ procs[i].pc = "loop"
    /\ LET n == procs[i].x
           f == [procs[i] EXCEPT !.n = @ + 1]
       IN
       IF parent[n] = None
       THEN Set(i, [procs[i] EXCEPT !.pc = "done"])
       ELSE /\ procs[i].n < Len(key) \div 2
            /\ IF IsZig(Links, n)
               THEN Set(i, [f EXCEPT !.pc = "rot1", !.rx = n,
                                     !.second = None])
               ELSE IF IsZigZig(Links, n)
               THEN Set(i, [f EXCEPT !.pc = "rot1", !.rx = parent[n],
                                     !.second = n])
               ELSE Set(i, [f EXCEPT !.pc = "rot1", !.rx = n, !.second = n])
    /\ UNCHANGED treeVars
    /\ UNCHANGED <<CallFrame, overlapped>>

\* _rotate has returned: the second rotation of the iteration, or the loop
Returned(f) ==
    IF f.second /= None
    THEN [f EXCEPT !.pc = "rot1", !.rx = f.second, !.second = None]
    ELSE [f EXCEPT !.pc = "loop"]

\* lines 27-38: p, g, the branch, and p.left = b = x.right (p.right = b = x.left)
CRot1(i) ==
    /\ procs[i].pc = "rot1"
    /\ LET n == procs[i].rx
           p == parent[n]
       IN IF p = None
          THEN /\ Set(i, Returned(procs[i]))
               /\ UNCHANGED <<left, right>>
          ELSE IF n = left[p]
          THEN /\ left' = [left EXCEPT ![p] = right[n]]
               /\ right' = right
               /\ Set(i, [procs[i] EXCEPT !.pc = "rot2", !.p = p,
                             !.g = parent[p], !.b = right[n], !.side = "left"])
          ELSE /\ right' = [right EXCEPT ![p] = left[n]]
               /\ left' = left
               /\ Set(i, [procs[i] EXCEPT !.pc = "rot2", !.p = p,
                             !.g = parent[p], !.b = left[n], !.side = "right"])
    /\ UNCHANGED <<key, val, parent, root>>
    /\ UNCHANGED <<CallFrame, overlapped>>

\* line 34 (38): x.right = p (x.left = p), and the test of line 39
CRot2(i) ==
    /\ procs[i].pc = "rot2"
    /\ LET f == procs[i] IN
       /\ IF f.side = "left"
          THEN right' = [right EXCEPT ![f.rx] = f.p] /\ left' = left
          ELSE left' = [left EXCEPT ![f.rx] = f.p] /\ right' = right
       /\ Set(i, [f EXCEPT !.pc = IF f.b /= None THEN "rot3" ELSE "rot4"])
    /\ UNCHANGED <<key, val, parent, root>>
    /\ UNCHANGED <<CallFrame, overlapped>>

\* line 40: b.parent = p
CRot3(i) ==
    /\ procs[i].pc = "rot3"
    /\ parent' = [parent EXCEPT ![procs[i].b] = procs[i].p]
    /\ Set(i, [procs[i] EXCEPT !.pc = "rot4"])
    /\ UNCHANGED <<key, val, left, right, root>>
    /\ UNCHANGED <<CallFrame, overlapped>>

\* line 41: x.parent = g
CRot4(i) ==
    /\ procs[i].pc = "rot4"
    /\ parent' = [parent EXCEPT ![procs[i].rx] = procs[i].g]
    /\ Set(i, [procs[i] EXCEPT !.pc = "rot5"])
    /\ UNCHANGED <<key, val, left, right, root>>
    /\ UNCHANGED <<CallFrame, overlapped>>

\* Mutant: _rotate without line 42.
CRot5Skip(i) ==
    /\ procs[i].pc = "rot5"
    /\ Set(i, [procs[i] EXCEPT !.pc = "rot6"])
    /\ UNCHANGED treeVars
    /\ UNCHANGED <<CallFrame, overlapped>>

\* line 42: p.parent = x
CRot5(i) ==
    /\ procs[i].pc = "rot5"
    /\ parent' = [parent EXCEPT ![procs[i].p] = procs[i].rx]
    /\ Set(i, [procs[i] EXCEPT !.pc = "rot6"])
    /\ UNCHANGED <<key, val, left, right, root>>
    /\ UNCHANGED <<CallFrame, overlapped>>

\* lines 43-49: g.left = x, g.right = x or self.root = x; _rotate returns
CRot6(i) ==
    /\ procs[i].pc = "rot6"
    /\ LET f == procs[i] IN
       /\ IF f.g /= None
          THEN IF f.p = left[f.g]
               THEN /\ left' = [left EXCEPT ![f.g] = f.rx]
                    /\ UNCHANGED <<right, root>>
               ELSE /\ right' = [right EXCEPT ![f.g] = f.rx]
                    /\ UNCHANGED <<left, root>>
          ELSE /\ root' = f.rx
               /\ UNCHANGED <<left, right>>
       /\ Set(i, Returned(f))
    /\ UNCHANGED <<key, val, parent>>
    /\ UNCHANGED <<CallFrame, overlapped>>

\* SpecConc: a tree is constructed, and then two threads call one operation
\* each on it, any two operations, their steps interleaved in any way (one
\* after the other included).
NextConc ==
    \/ CtorInsert0
    \/ CtorInsert1
    \/ SplayStep
    \/ \E i \in Procs, k \in Keys, v \in ConcVals : CInsert(i, k, v)
    \/ \E i \in Procs, k \in Keys : CSearch(i, k)
    \/ \E i \in Procs : CLoop(i)
    \/ \E i \in Procs : CRot1(i)
    \/ \E i \in Procs : CRot2(i)
    \/ \E i \in Procs : CRot3(i)
    \/ \E i \in Procs : CRot4(i)
    \/ \E i \in Procs : CRot5(i)
    \/ \E i \in Procs : CRot6(i)

SpecConc == Init /\ [][NextConc]_vars

----------------------------------------------------------------------------
(* What the properties below speak about.                                  *)

\* The nodes reachable from n by left and right links along a path of at
\* most d links.  A node that can be reached at all is reached by a path
\* of fewer than Len(key) links.
RECURSIVE Within(_, _)
Within(n, d) ==
    IF n = None THEN {}
    ELSE IF d = 0 THEN {n}
    ELSE {n} \cup Within(left[n], d - 1) \cup Within(right[n], d - 1)

Under(n) == Within(n, Len(key))
Reach == Under(root)

StoredKeys == {key[n] : n \in Reach}
Contents == {<<key[n], val[n]>> : n \in Reach}
AbstractPairs == {<<k, amap[k]>> : k \in DOMAIN amap}

RECURSIVE InOrder(_)
InOrder(n) ==
    IF n = None THEN <<>>
    ELSE InOrder(left[n]) \o <<key[n]>> \o InOrder(right[n])

\* A step that calls search (pc = "idle" before it).
SearchCall == pc = "idle" /\ op'.kind = "search"

----------------------------------------------------------------------------
(* C1: whenever no operation is running (after construction and after any  *)
(* sequence of insert and search calls), every node reachable from root    *)
(* has only smaller keys in its left subtree and only greater keys in its  *)
(* right subtree, and no two reachable nodes hold the same key.            *)

BSTOrdered ==
    \A n \in Reach :
        /\ \A m \in Under(left[n]) : key[m] < key[n]
        /\ \A m \in Under(right[n]) : key[m] > key[n]

NoDuplicateKey == \A m, n \in Reach : m /= n => key[m] /= key[n]

C1_BSTInvariant == pc = "idle" => BSTOrdered /\ NoDuplicateKey

C1_Witness ==
    /\ phase = "ready" /\ pc = "idle" /\ rots >= 2
    /\ root /= None /\ left[root] /= None /\ right[root] /= None
    /\ Cardinality(Reach) = MaxKey + 1

(* C2: in every state, so after every single _rotate call (the states      *)
(* between the two rotations of a zig-zig or zig-zag included) and after   *)
(* every insert and search: root.parent is None, every node other than the *)
(* root is exactly one of its parent's left and right child, and every     *)
(* child's parent field names the node it is a child of.                   *)

C2_ParentConsistency ==
    /\ root /= None => parent[root] = None
    /\ \A n \in Nodes :
        /\ n /= root =>
              /\ parent[n] /= None
              /\ (left[parent[n]] = n) /= (right[parent[n]] = n)
        /\ left[n] /= None => parent[left[n]] = n
        /\ right[n] /= None => parent[right[n]] = n

C2_Witness ==
    /\ pc = "splay2" /\ rots = 1
    /\ \E n \in Nodes : parent[n] /= None /\ parent[parent[n]] /= None
                        /\ parent[parent[parent[n]]] /= None

(* C3: a search for a key stored in the tree reports found, returning the  *)
(* node that holds the key, and when it returns that node is the root.     *)

C3_RootAfterAccess ==
    /\ [][(SearchCall /\ op'.key \in StoredKeys)
            => (result' /= None /\ key[result'] = op'.key)]_vars
    /\ [](pc = "idle" /\ op.kind = "search" /\ result /= None
            => root = result /\ key[root] = op.key)

C3_Witness ==
    /\ pc = "idle" /\ op.kind = "search" /\ result /= None
    /\ rots >= 3 /\ root = result

(* C4: when insert(key, value) has returned, whether the tree was empty,   *)
(* lacked the key or held it, the root holds key and value.                *)

C4_InsertPostcondition ==
    (pc = "idle" /\ op.kind = "insert")
        => (root /= None /\ key[root] = op.key /\ val[root] = op.val)

C4_Witness ==
    /\ phase = "ready" /\ pc = "idle" /\ op.kind = "insert" /\ rots >= 2
    /\ Len(key) = MaxKey + 1 /\ val[root] /= key[root]

(* C5: the tree is a key-value map.  With amap starting as {0:0, 1:1} and  *)
(* insert(k, v) setting amap[k] to v, in every state of a constructed tree *)
(* the stored (key, value) pairs are those of amap, and a search reports   *)
(* found exactly for the keys of amap and returns a node with amap's value.*)

C5_MapRefinement ==
    phase = "ready" =>
        /\ Contents = AbstractPairs
        /\ op.kind = "search" =>
              /\ (result /= None) <=> (op.key \in DOMAIN amap)
              /\ result /= None =>
                    (key[result] = op.key /\ val[result] = amap[op.key])

C5_Witness ==
    /\ phase = "ready" /\ pc = "idle" /\ op.kind = "search"
    /\ result /= None /\ val[result] /= key[result]
    /\ Cardinality(DOMAIN amap) >= 3 /\ rots >= 1

(* C6: insert(k, v1) followed by insert(k, v2).  When an insert of k has   *)
(* returned, a call of insert(k, v2) returns without a rotation, creates   *)
(* no node, leaves exactly one node with key k, with value v2, and leaves  *)
(* every other key's value as it was.                                      *)

C6_IdempotentOverwrite ==
    [][(/\ phase = "ready" /\ pc = "idle" /\ op.kind = "insert"
        /\ op'.kind = "insert" /\ op'.key = op.key)
       => (/\ pc' = "idle"
           /\ key' = key
           /\ Reach' = Reach
           /\ Cardinality({n \in Reach' : key'[n] = op.key}) = 1
           /\ \A n \in Reach' : key'[n] = op.key => val'[n] = op'.val
           /\ \A n \in Nodes : key[n] /= op.key => val'[n] = val[n])]_vars

\* An insert of the root's key has returned: what the second insert leaves.
C6_Witness ==
    /\ phase = "ready" /\ pc = "idle" /\ op.kind = "insert"
    /\ x /= None /\ x = root /\ rots = 0
    /\ val[root] = op.val /\ val[root] /= key[root]
    /\ Cardinality(Reach) >= 3

(* C7: a search, for a stored or an absent key, never changes the set of   *)
(* stored (key, value) pairs and creates no node; on a tree with no node   *)
(* it reports not-found and the tree still has no node.                    *)

C7_SearchFrame ==
    /\ [][op'.kind = "search"
            => \/ treeVars' = treeVars
               \/ (Contents' = Contents /\ Len(key') = Len(key))]_vars
    /\ [][(SearchCall /\ root = None)
            => (root' = None /\ result' = None /\ pc' = "idle")]_vars

C7_Witness ==
    /\ root = None /\ Len(key) = 0
    /\ pc = "idle" /\ op.kind = "search" /\ result = None

(* C8: a search of a non-empty tree for a key k that is not stored reports *)
(* not-found; the node it splays is the last node of the search path from  *)
(* the root, the one whose child slot for k is None; when the search       *)
(* returns that node is the root, and a search for the root's key that     *)
(* follows at once returns it without a rotation.                          *)

RECURSIVE OnSearchPath(_, _)
OnSearchPath(n, k) ==
    IF parent[n] = None THEN n = root
    ELSE LET a == parent[n] IN
         /\ \/ k < key[a] /\ left[a] = n
            \/ k > key[a] /\ right[a] = n
         /\ OnSearchPath(a, k)

SlotAbsent(n, k) ==
    \/ k < key[n] /\ left[n] = None
    \/ k > key[n] /\ right[n] = None

MissReturned ==
    pc = "idle" /\ op.kind = "search" /\ result = None /\ root /= None

C8_MissSplaysLastVisited ==
    /\ [][(SearchCall /\ root /= None /\ op'.key \notin StoredKeys)
            => (/\ result' = None
                /\ x' /= None
                /\ OnSearchPath(x', op'.key)
                /\ SlotAbsent(x', op'.key))]_vars
    /\ [](MissReturned => root = x)
    /\ [][(MissReturned /\ SearchCall /\ op'.key = key[root])
            => (/\ result' = root
                /\ pc' = "idle"
                /\ rots' = 0
                /\ Links' = Links)]_vars

C8_Witness ==
    /\ phase = "ready" /\ MissReturned /\ root = x /\ rots >= 2
    /\ SlotAbsent(root, op.key)

(* C9: fibonacci_splay(n, tree) on a newly constructed tree returns F(n)   *)
(* for every n in 0..MaxN; afterwards the tree stores exactly the keys     *)
(* 0..max(n, 1), each key k with value F(k) (for n = 5 the pairs of        *)
(* [0,1,1,2,3,5]); and a search(n) that follows, for n >= 2, returns a     *)
(* node with value F(n) and leaves root key n.                             *)

RECURSIVE F(_)
F(n) == IF n < 2 THEN n ELSE F(n - 1) + F(n - 2)

Evaluated == Len(stack) = 1 /\ Top.at \in {"returned", "checked"}
Searched == Len(stack) = 1 /\ Top.at = "checked" /\ pc = "idle"
TopKey == IF fibN > 1 THEN fibN ELSE 1

C9_EvaluatorCorrect ==
    /\ Evaluated =>
          /\ ret = F(fibN)
          /\ Contents = {<<k, F(k)>> : k \in 0..TopKey}
          /\ Cardinality(Reach) = TopKey + 1
          /\ fibN = 5 => Contents = {<<0, 0>>, <<1, 1>>, <<2, 1>>,
                                     <<3, 2>>, <<4, 3>>, <<5, 5>>}
    /\ Searched =>
          /\ result /= None
          /\ val[result] = F(fibN)
          /\ key[root] = fibN

C9_Witness == Searched /\ fibN = 5 /\ ret = 5 /\ key[root] = 5

(* C10: on a newly constructed tree, inserting the keys 3, 1, 2 in that    *)
(* order leaves root key 2.  As stated in the specification, an in-order   *)
(* traversal then yields [1, 2, 3] ...                                     *)

ScriptDone == done = <<3, 1, 2>> /\ pc = "idle"

C10_AsStated ==
    ScriptDone => (key[root] = 2 /\ InOrder(root) = <<1, 2, 3>>)

(* ... and as the code has it, the constructor having stored the keys 0    *)
(* and 1 before the caller's first insert, it yields [0, 1, 2, 3].         *)

C10_WithSeeds ==
    ScriptDone => (key[root] = 2 /\ InOrder(root) = <<0, 1, 2, 3>>)

C10_Witness == ScriptDone /\ todo = <<>> /\ Len(key) = 4

(* C11: when the constructor has returned and the caller has not yet       *)
(* called anything, the tree holds exactly two nodes, key 0 with value 0   *)
(* and key 1 with value 1, and is BST-ordered and parent-consistent.       *)

Constructed == phase = "ready" /\ pc = "idle" /\ done = <<>>

C11_PreSeeded ==
    Constructed =>
        /\ Contents = {<<0, 0>>, <<1, 1>>}
        /\ Len(key) = 2
        /\ Reach = Nodes
        /\ BSTOrdered /\ NoDuplicateKey
        /\ C2_ParentConsistency

C11_Witness == Constructed /\ todo /= <<>> /\ root /= None /\ rots = 1

(* C14: in every state, so after every rotation and every insert and       *)
(* search, the nodes and their left and right links form a tree: no node   *)
(* is below itself, no node is the child of two nodes or the left and the  *)
(* right child of one, the root is nobody's child, and every node ever     *)
(* created is reachable from root.                                         *)

ChildLinks(n) ==
    {<<m, "left">> : m \in {m \in Nodes : left[m] = n}}
        \cup {<<m, "right">> : m \in {m \in Nodes : right[m] = n}}

Acyclic == \A n \in Nodes : n \notin Under(left[n]) \cup Under(right[n])

C14_TreeShape ==
    /\ Acyclic
    /\ \A n \in Nodes : Cardinality(ChildLinks(n)) <= 1
    /\ root /= None => ChildLinks(root) = {}
    /\ Reach = Nodes

C14_Witness ==
    /\ pc = "splay2" /\ Len(key) = MaxKey + 1
    /\ \E n \in Nodes : left[n] /= None /\ right[n] /= None

(* C15: _rotate as a function of the tree and the node.  For every tree    *)
(* the program reaches and every node x of it: if x has no parent the      *)
(* rotation changes nothing; otherwise, with p the parent and g the        *)
(* grandparent, it leaves the in-order sequence of (key, value) pairs      *)
(* unchanged, makes p a child of x, puts x where p was (under g on p's     *)
(* side, or as root) and makes x's depth one less.                         *)

RECURSIVE InOrderIn(_, _)
InOrderIn(t, n) ==
    IF n = None THEN <<>>
    ELSE InOrderIn(t, t.left[n]) \o <<<<key[n], val[n]>>>>
            \o InOrderIn(t, t.right[n])

RotateOK(t, n) ==
    LET u == Rotate(t, n)
        p == t.parent[n]
    IN IF p = None THEN u = t
       ELSE LET g == t.parent[p] IN
            /\ InOrderIn(u, u.root) = InOrderIn(t, t.root)
            /\ u.parent[p] = n
            /\ (u.left[n] = p) /= (u.right[n] = p)
            /\ u.parent[n] = g
            /\ IF g = None THEN u.root = n
               ELSE /\ u.root = t.root
                    /\ t.left[g] = p => u.left[g] = n
                    /\ t.right[g] = p => u.right[g] = n
            /\ DepthIn(u, n) = DepthIn(t, n) - 1

C15_RotatePreserves == \A n \in Nodes : RotateOK(Links, n)

\* A rotation has just run, in a tree where some node with a parent and a
\* grandparent has an inner subtree to hand over.
C15_Witness ==
    /\ pc = "splay2" /\ rots = 1
    /\ \E n \in Nodes :
          /\ parent[n] /= None /\ parent[parent[n]] /= None
          /\ IF left[parent[n]] = n THEN right[n] /= None ELSE left[n] /= None

(* C18: when a search of a non-empty tree for a key k that is not stored   *)
(* has returned, the root's key is the greatest stored key below k or the  *)
(* least stored key above k.                                               *)

Below(k) == {j \in StoredKeys : j < k}
Above(k) == {j \in StoredKeys : j > k}
Greatest(S) == CHOOSE j \in S : \A i \in S : i <= j
Least(S) == CHOOSE j \in S : \A i \in S : j <= i

IsNeighbour(j, k) ==
    \/ Below(k) /= {} /\ j = Greatest(Below(k))
    \/ Above(k) /= {} /\ j = Least(Above(k))

C18_MissTargetNeighbour ==
    (MissReturned /\ op.key \notin StoredKeys) => IsNeighbour(key[root], op.key)

\* A miss between two stored keys that left the greater one at the root.
C18_Witness ==
    /\ phase = "ready" /\ MissReturned /\ rots >= 2
    /\ Below(op.key) /= {} /\ Above(op.key) /= {}
    /\ key[root] = Least(Above(op.key))

(* C16: the shape one iteration of the _splay loop produces.  With p and g *)
(* the parent and grandparent of x when the iteration begins: if g is None *)
(* (zig) the one rotation makes x the root and p its child; if x and p are *)
(* children on the same side (zig-zig) the parent is rotated first, which  *)
(* puts g and x under p, and afterwards x is where g was, p is a child of  *)
(* x and g a child of p; otherwise (zig-zag) x is rotated first, which     *)
(* puts p under x and x under g, and afterwards x is where g was and p     *)
(* and g are both children of x.                                           *)

\* Where node n hangs in the links t: its parent and the side, or the root.
Occupies(t, n) ==
    [par |-> t.parent[n],
     side |-> IF t.parent[n] = None
              THEN (IF t.root = n THEN "root" ELSE "nowhere")
              ELSE IF t.left[t.parent[n]] = n THEN "left"
              ELSE IF t.right[t.parent[n]] = n THEN "right"
              ELSE "nowhere"]

IsChild(t, c, n) ==
    /\ t.parent[c] = n
    /\ (t.left[n] = c) /= (t.right[n] = c)

SameSide(t, n) ==
    LET p == t.parent[n]
        g == t.parent[p]
    IN \/ t.left[p] = n /\ t.left[g] = p
       \/ t.right[p] = n /\ t.right[g] = p

\* The links when the iteration that is running began.
IterStart == IF pc = "splay" THEN Links ELSE iter0

\* This step is the last rotation of an iteration.
IterEnds ==
    \/ pc = "splay" /\ pc' /= "splay2"
    \/ pc = "splay2" /\ pc' /= "splay2"

IterShape(s, u, n) ==
    LET p == s.parent[n]
        g == s.parent[p]
    IN IF g = None
       THEN /\ u.root = n /\ u.parent[n] = None
            /\ IsChild(u, p, n)
       ELSE /\ Occupies(u, n) = Occupies(s, g)
            /\ IF SameSide(s, n)
               THEN IsChild(u, p, n) /\ IsChild(u, g, p)
               ELSE IsChild(u, p, n) /\ IsChild(u, g, n)

MidShape(s, u, n) ==
    LET p == s.parent[n]
        g == s.parent[p]
    IN /\ g /= None
       /\ IF SameSide(s, n)
          THEN /\ Occupies(u, p) = Occupies(s, g)
               /\ IsChild(u, g, p) /\ IsChild(u, n, p)
          ELSE /\ Occupies(u, n) = Occupies(s, p)
               /\ IsChild(u, p, n) /\ IsChild(u, n, g)

C16_SplayStepShapes ==
    /\ [](pc = "splay2" => MidShape(iter0, Links, x))
    /\ [][IterEnds => IterShape(IterStart, Links', x)]_vars

\* The first rotation of a zig-zag has run: x, rotated first, is now between
\* its former grandparent (above it) and its former parent (below it).
C16_Witness ==
    /\ pc = "splay2" /\ rots = 1 /\ d0 = 2
    /\ ~SameSide(iter0, x)
    /\ iter0.parent[x] /= None /\ parent[iter0.parent[x]] = x

(* C17: _splay(x) terminates with x as root.  Each rotation makes x's      *)
(* depth one less, so each iteration of the loop makes it one less (zig)   *)
(* or two less (zig-zig, zig-zag); the loop runs exactly while the depth   *)
(* is positive; and when it has returned x is the root and the number of   *)
(* rotations made equals the depth x had when _splay was called.           *)

C17_SplayTerminates ==
    /\ [](x /= None => rots + Depth(x) = d0)
    /\ [](x /= None => ((pc = "idle") = (Depth(x) = 0)))
    /\ []((pc = "idle" /\ x /= None) =>
             root = x /\ parent[x] = None /\ rots = d0)
    /\ [][pc /= "idle" => Depth(x)' = Depth(x) - 1]_vars
    /\ [][IterEnds =>
            Depth(x)' = DepthIn(IterStart, x)
                          - (IF IsZig(IterStart, x) THEN 1 ELSE 2)]_vars

\* A splay of a node at depth three has returned after three rotations.
C17_Witness == pc = "idle" /\ x /= None /\ d0 = 3 /\ rots = 3 /\ root = x

(* C19: during one evaluation fibonacci_splay(fibN) on a new tree, insert  *)
(* is called once for each key in 2..fibN, in increasing order, and never  *)
(* for a key that is stored; a call for a key that has been inserted finds *)
(* it; and, run fairly, the evaluation returns.                            *)

InsertedKeys == {inserted[i] : i \in 1..Len(inserted)}

C19_InsertOncePerKey ==
    /\ [](\A i \in 1..Len(inserted) : inserted[i] = i + 1)
    /\ [](Len(inserted) <= fibN /\ (fibN >= 2 => Len(inserted) <= fibN - 1))
    /\ [](Evaluated => InsertedKeys = 2..fibN)
    /\ []((FibReady /\ Top.at = "searched" /\ Top.n \in InsertedKeys)
             => result /= None)
    /\ [][inserted' /= inserted => Top.n \notin StoredKeys]_vars
    /\ <>Evaluated

C19_Witness ==
    /\ Evaluated /\ fibN = MaxN /\ Len(inserted) = MaxN - 1
    /\ op.kind = "search" /\ result /= None

(* C12: the cached range sum is coherent with the list `array`.  After any *)
(* calls of range_sum_with_cache and update_with_cache on it, every entry  *)
(* of the cache holds the sum of its range over the current contents, a    *)
(* call returns what range_sum_no_cache returns on the current contents,   *)
(* and an update leaves the cache empty.                                   *)

C12_CacheCoherent ==
    /\ \A e \in cache :
          e.v = RangeSumNoCache(arr[e.k[1]], e.k[2], e.k[3])
    /\ cop.kind = "sum" =>
          cop.res = RangeSumNoCache(arr[cop.a], cop.L, cop.R)
    /\ cop.kind = "update" => cache = {}

\* A sum answered from the cache while other entries are cached too.
C12_Witness ==
    /\ cop.kind = "sum" /\ cop.hit /\ cop.res > 0
    /\ Cardinality(cache) >= 2

(* C13: range_sum_with_cache(a, L, R) returns the sum of the elements L..R *)
(* of the list a it is passed, for every list passed.                      *)

C13_SumOfArgument ==
    cop.kind = "sum" => cop.res = RangeSumNoCache(arr[cop.a], cop.L, cop.R)

(* C20: two operations on one tree.  When the second is called only after  *)
(* the first has returned, the tree is well-formed whenever neither is     *)
(* running: BST-ordered, without duplicate keys, parent-consistent, a tree *)
(* (no cycle, no shared child) and with every node reachable from root.    *)
(* When their pointer assignments interleave, both can have returned and   *)
(* left a tree that is not (the witness: a node is lost and the links     *)
(* hold a cycle).                                                          *)

WellFormed ==
    /\ BSTOrdered /\ NoDuplicateKey
    /\ C2_ParentConsistency
    /\ C14_TreeShape

Quiet == pc = "idle" /\ \A i \in Procs : ~Running(i)
BothReturned == \A i \in Procs : procs[i].pc = "done"

\* A _splay loop that is not at its end has iterations left to make.
NotCut(i) ==
    (procs[i].pc = "loop" /\ parent[procs[i].x] /= None)
        => procs[i].n < Len(key) \div 2

C20_SafeWhenSequential ==
    ~overlapped =>
        /\ Quiet => WellFormed
        /\ \A i \in Procs : NotCut(i)

C20_Witness ==
    /\ BothReturned /\ overlapped
    /\ Reach /= Nodes
    /\ ~Acyclic

====
